---- MODULE Spec2Model ----
(***************************************************************************)
(* Model of native/wayland-protocols-jni.c: four accessors that return the *)
(* addresses of protocol interface descriptors and three fixed-arity       *)
(* wrappers around libwayland-client constructor calls.                    *)
(*                                                                         *)
(* The wrappers are pure pass-throughs, so the state of the model is the   *)
(* state they could touch: the link-time symbol table, the external        *)
(* library's objects, the process's open file descriptors and the          *)
(* component's own writable static storage (of which the source has none). *)
(***************************************************************************)
EXTENDS Integers, Sequences, FiniteSets, TLC

VARIABLES
    symtab,     \* address the linker gave each extern const struct wl_interface
    lib,        \* state of the external client library
    fds,        \* file descriptors open in the process (owned by the caller)
    mem,        \* writable static storage of the component: values it retains
    returned,   \* history: addresses each accessor has returned so far
    last,       \* history: the last completed sequential operation
    pc, frame   \* two-thread specification: position and activation record

vars == <<symtab, lib, fds, mem, returned, last, pc, frame>>

(***************************************************************************)
(* Bounds of the model.                                                    *)
(***************************************************************************)
MaxObjects == 2     \* objects the library creates in one run

(***************************************************************************)
(* Values that cross the boundary.                                         *)
(***************************************************************************)
NULL == 0

Symbols ==
    {"zwlr_layer_shell_v1_interface", "zwlr_layer_surface_v1_interface",
     "zxdg_output_manager_v1_interface", "zxdg_output_v1_interface"}

Accessors ==
    {"get_zwlr_layer_shell_v1_interface", "get_zwlr_layer_surface_v1_interface",
     "get_zxdg_output_manager_v1_interface", "get_zxdg_output_v1_interface"}

\* Distinct objects have distinct non-null addresses; which ones is the
\* linker's choice, fixed for the lifetime of the process.
Slot ==
    [s \in Symbols |->
        CASE s = "zwlr_layer_shell_v1_interface" -> 1
          [] s = "zwlr_layer_surface_v1_interface" -> 2
          [] s = "zxdg_output_manager_v1_interface" -> 3
          [] s = "zxdg_output_v1_interface" -> 4]

LinkLayouts ==
    {[s \in Symbols |-> base + Slot[s]] : base \in {16, 32}}

\* Handles the caller obtained from the external library before it calls in.
ShmHandles == {1, 2}
LayerShellHandles == {3, 4}
SurfaceHandles == {5, 6}
OutputHandles == {7}
Preexisting == ShmHandles \cup LayerShellHandles \cup SurfaceHandles \cup OutputHandles
OpenFds == {10, 11}

\* How the external library reports a request it rejects.
FailureModes == {"null", "protocol_error"}

(***************************************************************************)
(* The external client library.  Its code is not part of the repository;  *)
(* it is modelled from the contract the specification gives for it: a      *)
(* request on valid arguments creates an object carrying exactly the       *)
(* arguments received; a rejected request yields either a null handle or   *)
(* an object plus an asynchronous protocol error.  w is the world the call *)
(* runs in; every call is appended to w.calls with what it returned.       *)
(***************************************************************************)
LibObjects(l) == l.layer_surfaces \cup l.pools \cup l.buffers

LibIds(l) == {o.id : o \in LibObjects(l)}

Created(l) == Cardinality(LibIds(l))

PoolOf(l, h) == CHOOSE p \in l.pools : p.id = h

Request(w, fn, args, valid, newlib) ==
    LET ret == IF valid \/ w.how = "protocol_error" THEN w.lib.next ELSE NULL
        status == IF valid THEN "ok" ELSE w.how
        l2 == IF ret = NULL THEN w.lib
              ELSE [newlib EXCEPT !.next = @ + 1, !.live = @ \cup {ret},
                                  !.error = @ \/ ~valid]
    IN  [ret |-> ret,
         w |-> [w EXCEPT !.lib = l2,
                         !.calls = Append(@, [fn |-> fn, args |-> args,
                                              ret |-> ret, status |-> status])]]

zwlr_layer_shell_v1_get_layer_surface(w, layer_shell, surface, output, layer, namespace) ==
    Request(w, "zwlr_layer_shell_v1_get_layer_surface",
            [layer_shell |-> layer_shell, surface |-> surface, output |-> output,
             layer |-> layer, namespace |-> namespace],
            /\ layer_shell \in LayerShellHandles \cap w.lib.live
            /\ surface \in SurfaceHandles \cap w.lib.live
            /\ output \in (OutputHandles \cap w.lib.live) \cup {NULL},
            [w.lib EXCEPT !.layer_surfaces = @ \cup
                {[id |-> w.lib.next, layer_shell |-> layer_shell, surface |-> surface,
                  output |-> output, layer |-> layer, namespace |-> namespace]}])

wl_shm_create_pool(w, shm, fd, size) ==
    Request(w, "wl_shm_create_pool",
            [shm |-> shm, fd |-> fd, size |-> size],
            /\ shm \in ShmHandles \cap w.lib.live
            /\ fd \in w.fds
            /\ size > 0,
            [w.lib EXCEPT !.pools = @ \cup
                {[id |-> w.lib.next, shm |-> shm, fd |-> fd, size |-> size]}])

wl_shm_pool_create_buffer(w, pool, offset, width, height, stride, format) ==
    Request(w, "wl_shm_pool_create_buffer",
            [pool |-> pool, offset |-> offset, width |-> width, height |-> height,
             stride |-> stride, format |-> format],
            /\ pool \in {p.id : p \in w.lib.pools} \cap w.lib.live
            /\ offset + height * stride <= PoolOf(w.lib, pool).size,
            [w.lib EXCEPT !.buffers = @ \cup
                {[id |-> w.lib.next, pool |-> pool, offset |-> offset, width |-> width,
                  height |-> height, stride |-> stride, format |-> format]}])

(***************************************************************************)
(* The seven exported functions.  Each takes the world it runs in and      *)
(* yields its return value and the world it leaves.                        *)
(***************************************************************************)
\* Fault: the descriptor is copied on demand, so its address moves.
get_zwlr_layer_shell_v1_interface_copied(w) ==
    [ret |-> w.symtab["zwlr_layer_shell_v1_interface"] + w.lib.next, w |-> w]

get_zwlr_layer_shell_v1_interface(w) ==
    [ret |-> w.symtab["zwlr_layer_shell_v1_interface"], w |-> w]

get_zwlr_layer_surface_v1_interface(w) ==
    [ret |-> w.symtab["zwlr_layer_surface_v1_interface"], w |-> w]

get_zxdg_output_manager_v1_interface(w) ==
    [ret |-> w.symtab["zxdg_output_manager_v1_interface"], w |-> w]

\* Fault: pasted from the accessor above without renaming the symbol.
get_zxdg_output_v1_interface_pasted(w) ==
    [ret |-> w.symtab["zxdg_output_manager_v1_interface"], w |-> w]

get_zxdg_output_v1_interface(w) ==
    [ret |-> w.symtab["zxdg_output_v1_interface"], w |-> w]

\* Fault: a null output is replaced by an output the wrapper picks.
create_layer_surface_default_output(w, layer_shell, surface, output, layer, namespace) ==
    zwlr_layer_shell_v1_get_layer_surface(
        w, layer_shell, surface,
        IF output = NULL THEN CHOOSE o \in OutputHandles : TRUE ELSE output,
        layer, namespace)

\* Fault: the wrapper keeps the handle it created in a static variable.
create_layer_surface_retained(w, layer_shell, surface, output, layer, namespace) ==
    LET r == zwlr_layer_shell_v1_get_layer_surface(w, layer_shell, surface, output,
                                                   layer, namespace)
    IN  [r EXCEPT !.w.mem = @ \cup {r.ret}]

create_layer_surface(w, layer_shell, surface, output, layer, namespace) ==
    zwlr_layer_shell_v1_get_layer_surface(w, layer_shell, surface, output, layer, namespace)

\* Fault: a null pool is translated into an error code.
create_shm_pool_translated(w, shm, fd, size) ==
    LET r == wl_shm_create_pool(w, shm, fd, size)
    IN  IF r.ret = NULL THEN [r EXCEPT !.ret = -1] ELSE r

\* Fault: the wrapper takes the descriptor over and closes it.
create_shm_pool_closing(w, shm, fd, size) ==
    LET r == wl_shm_create_pool(w, shm, fd, size)
    IN  [r EXCEPT !.w.fds = @ \ {fd}]

\* Fault: the last pool is remembered in a static variable.
create_shm_pool_cached(w, shm, fd, size) ==
    LET r == wl_shm_create_pool(w, shm, fd, size)
    IN  [r EXCEPT !.w.mem = {r.ret}]

\* Fault: the pool is created once and handed out again on later calls.
create_shm_pool_memoised(w, shm, fd, size) ==
    IF w.mem # {} THEN [ret |-> CHOOSE h \in w.mem : TRUE, w |-> w]
    ELSE LET r == wl_shm_create_pool(w, shm, fd, size)
         IN  IF r.ret = NULL THEN r ELSE [r EXCEPT !.w.mem = {r.ret}]

\* Fault: a null result is retried once.
create_shm_pool_retrying(w, shm, fd, size) ==
    LET r == wl_shm_create_pool(w, shm, fd, size)
    IN  IF r.ret = NULL THEN wl_shm_create_pool(r.w, shm, fd, size) ELSE r

create_shm_pool(w, shm, fd, size) ==
    wl_shm_create_pool(w, shm, fd, size)

\* Fault: the wrapper checks the geometry against the pool itself.
create_buffer_from_pool_checked(w, pool, offset, width, height, stride, format) ==
    IF /\ pool \in {p.id : p \in w.lib.pools}
       /\ offset + height * stride > PoolOf(w.lib, pool).size
    THEN [ret |-> NULL, w |-> w]
    ELSE wl_shm_pool_create_buffer(w, pool, offset, width, height, stride, format)

create_buffer_from_pool(w, pool, offset, width, height, stride, format) ==
    wl_shm_pool_create_buffer(w, pool, offset, width, height, stride, format)

(***************************************************************************)
(* Arguments a foreign caller passes: valid handles, handles the           *)
(* component created earlier, null, and out-of-contract values.            *)
(***************************************************************************)
LayerShellArgs == {3, NULL}
SurfaceArgs == {5}
OutputArgs == OutputHandles \cup {NULL}
LayerArgs == {1}
NamespaceArgs == {"bongocat", ""}
ShmArgs == {1, NULL}
FdArgs == {10, -1}
SizeArgs == {16, 32}
PoolArgs(l) == {p.id : p \in l.pools} \cup {NULL}
OffsetArgs == {0}
WidthArgs == {2}
HeightArgs == {2, 4}
StrideArgs == {8}
FormatArgs == {0}

NoCall == [op |-> "none", args |-> <<>>, ret |-> NULL, calls |-> <<>>,
           pre |-> <<>>]

Threads == {1, 2}

NoFrame == [op |-> "none", args |-> <<>>, how |-> "null", ret |-> NULL,
            alone |-> <<>>, result |-> <<>>, wrote |-> {}]

Init ==
    /\ symtab \in LinkLayouts
    /\ lib = [next |-> 8, live |-> Preexisting, layer_surfaces |-> {}, pools |-> {},
              buffers |-> {}, error |-> FALSE]
    /\ fds = OpenFds
    /\ mem = {}
    /\ returned = [a \in Accessors |-> {}]
    /\ last = NoCall
    /\ pc = [t \in Threads |-> "idle"]
    /\ frame = [t \in Threads |-> NoFrame]

World(how) ==
    [symtab |-> symtab, lib |-> lib, fds |-> fds, mem |-> mem, how |-> how,
     calls |-> <<>>]

\* A sequential call of op has run to completion with result r.
Completed(op, args, r) ==
    /\ symtab' = r.w.symtab
    /\ lib' = r.w.lib
    /\ fds' = r.w.fds
    /\ mem' = r.w.mem
    /\ returned' = IF op \in Accessors THEN [returned EXCEPT ![op] = @ \cup {r.ret}]
                   ELSE returned
    /\ last' = [op |-> op, args |-> args, ret |-> r.ret,
                calls |-> r.w.calls,
                pre |-> [symtab |-> symtab, lib |-> lib, fds |-> fds, mem |-> mem,
                         returned |-> returned]]
    /\ UNCHANGED <<pc, frame>>

GetLayerShellInterface ==
    Completed("get_zwlr_layer_shell_v1_interface", <<>>,
              get_zwlr_layer_shell_v1_interface(World("null")))

GetLayerSurfaceInterface ==
    Completed("get_zwlr_layer_surface_v1_interface", <<>>,
              get_zwlr_layer_surface_v1_interface(World("null")))

GetOutputManagerInterface ==
    Completed("get_zxdg_output_manager_v1_interface", <<>>,
              get_zxdg_output_manager_v1_interface(World("null")))

GetOutputInterface ==
    Completed("get_zxdg_output_v1_interface", <<>>,
              get_zxdg_output_v1_interface(World("null")))

CreateLayerSurface ==
    /\ Created(lib) < MaxObjects
    /\ \E layer_shell \in LayerShellArgs, surface \in SurfaceArgs, output \in OutputArgs,
          layer \in LayerArgs, namespace \in NamespaceArgs, how \in FailureModes :
            Completed("create_layer_surface",
                      [layer_shell |-> layer_shell, surface |-> surface,
                       output |-> output, layer |-> layer, namespace |-> namespace],
                      create_layer_surface(World(how), layer_shell, surface, output,
                                           layer, namespace))

CreateShmPool ==
    /\ Created(lib) < MaxObjects
    /\ \E shm \in ShmArgs, fd \in FdArgs, size \in SizeArgs, how \in FailureModes :
            Completed("create_shm_pool", [shm |-> shm, fd |-> fd, size |-> size],
                      create_shm_pool(World(how), shm, fd, size))

CreateBufferFromPool ==
    /\ Created(lib) < MaxObjects
    /\ \E pool \in PoolArgs(lib), offset \in OffsetArgs, width \in WidthArgs,
          height \in HeightArgs, stride \in StrideArgs, format \in FormatArgs,
          how \in FailureModes :
            Completed("create_buffer_from_pool",
                      [pool |-> pool, offset |-> offset, width |-> width,
                       height |-> height, stride |-> stride, format |-> format],
                      create_buffer_from_pool(World(how), pool, offset, width, height,
                                              stride, format))

Next ==
    \/ GetLayerShellInterface
    \/ GetLayerSurfaceInterface
    \/ GetOutputManagerInterface
    \/ GetOutputInterface
    \/ CreateLayerSurface
    \/ CreateShmPool
    \/ CreateBufferFromPool

Spec == Init /\ [][Next]_vars

(***************************************************************************)
(* Two foreign threads calling in.  A call is invoked (arguments on the    *)
(* thread's own stack), its body runs, and it returns; the bodies of two   *)
(* calls in flight run in either order.  Nothing in the source orders      *)
(* them: the component takes no lock.                                      *)
(***************************************************************************)
Apply(op, w, a) ==
    CASE op = "get_zwlr_layer_shell_v1_interface" -> get_zwlr_layer_shell_v1_interface(w)
      [] op = "get_zwlr_layer_surface_v1_interface" -> get_zwlr_layer_surface_v1_interface(w)
      [] op = "get_zxdg_output_manager_v1_interface" -> get_zxdg_output_manager_v1_interface(w)
      [] op = "get_zxdg_output_v1_interface" -> get_zxdg_output_v1_interface(w)
      [] op = "create_layer_surface" ->
            create_layer_surface(w, a.layer_shell, a.surface, a.output, a.layer, a.namespace)
      [] op = "create_shm_pool" -> create_shm_pool(w, a.shm, a.fd, a.size)
      [] op = "create_buffer_from_pool" ->
            create_buffer_from_pool(w, a.pool, a.offset, a.width, a.height, a.stride,
                                    a.format)

\* What a call's result is, up to the identity of a handle the library
\* allocates: an address, null, or the object the returned handle denotes.
Outcome(op, r) ==
    IF op \in Accessors THEN <<"address", r.ret>>
    ELSE IF r.ret = NULL THEN <<"null">>
    ELSE LET objs == {o \in LibObjects(r.w.lib) : o.id = r.ret}
         IN  IF objs = {} THEN <<"dangling">>
             ELSE LET o == CHOOSE x \in objs : TRUE
                  IN  <<"object", [f \in DOMAIN o \ {"id"} |-> o[f]]>>

\* The handles and descriptors among a call's arguments.
HandlesOf(op, a) ==
    (CASE op = "create_layer_surface" -> {a.layer_shell, a.surface, a.output}
       [] op = "create_shm_pool" -> {a.shm, a.fd}
       [] op = "create_buffer_from_pool" -> {a.pool}
       [] OTHER -> {}) \ {NULL}

InFlight(t) == pc[t] # "idle"

Constructing == {t \in Threads : InFlight(t) /\ frame[t].op \notin Accessors}

Invoke(t, op, args, how) ==
    /\ pc[t] = "idle"
    /\ \A u \in Threads \ {t} :
          InFlight(u) => HandlesOf(op, args) \cap HandlesOf(frame[u].op, frame[u].args) = {}
    /\ op \notin Accessors => Created(lib) + Cardinality(Constructing) < MaxObjects
    /\ pc' = [pc EXCEPT ![t] = "running"]
    /\ frame' = [frame EXCEPT ![t] =
                    [op |-> op, args |-> args, how |-> how, ret |-> NULL,
                     alone |-> Outcome(op, Apply(op, World(how), args)),
                     result |-> <<>>, wrote |-> {}]]
    /\ UNCHANGED <<symtab, lib, fds, mem, returned, last>>

InvokeAccessor(t) ==
    \E op \in Accessors : Invoke(t, op, <<>>, "null")

InvokeCreateLayerSurface(t) ==
    \E layer_shell \in {2 + t, NULL}, surface \in {4 + t}, output \in {NULL},
       layer \in LayerArgs, namespace \in {"bongocat"}, how \in FailureModes :
        Invoke(t, "create_layer_surface",
               [layer_shell |-> layer_shell, surface |-> surface, output |-> output,
                layer |-> layer, namespace |-> namespace], how)

InvokeCreateShmPool(t) ==
    \E shm \in {t, NULL}, fd \in {9 + t}, size \in {16}, how \in FailureModes :
        Invoke(t, "create_shm_pool", [shm |-> shm, fd |-> fd, size |-> size], how)

InvokeCreateBufferFromPool(t) ==
    \E pool \in PoolArgs(lib), offset \in OffsetArgs, width \in WidthArgs,
       height \in HeightArgs, stride \in StrideArgs, format \in FormatArgs,
       how \in FailureModes :
        Invoke(t, "create_buffer_from_pool",
               [pool |-> pool, offset |-> offset, width |-> width, height |-> height,
                stride |-> stride, format |-> format], how)

\* The body of the call of thread t runs: the statements of the function.
Execute(t) ==
    /\ pc[t] = "running"
    /\ LET f == frame[t]
           r == Apply(f.op, World(f.how), f.args)
       IN  /\ symtab' = r.w.symtab
           /\ lib' = r.w.lib
           /\ fds' = r.w.fds
           /\ mem' = r.w.mem
           /\ frame' = [frame EXCEPT ![t] =
                           [f EXCEPT !.ret = r.ret,
                                     !.result = Outcome(f.op, r),
                                     !.wrote = IF r.w.mem # mem THEN {"mem"} ELSE {}]]
    /\ pc' = [pc EXCEPT ![t] = "returning"]
    /\ UNCHANGED <<returned, last>>

Return(t) ==
    /\ pc[t] = "returning"
    /\ pc' = [pc EXCEPT ![t] = "idle"]
    /\ frame' = [frame EXCEPT ![t] = NoFrame]
    /\ UNCHANGED <<symtab, lib, fds, mem, returned, last>>

NextConc ==
    \E t \in Threads :
        \/ InvokeAccessor(t)
        \/ InvokeCreateLayerSurface(t)
        \/ InvokeCreateShmPool(t)
        \/ InvokeCreateBufferFromPool(t)
        \/ Execute(t)
        \/ Return(t)

SpecConc == Init /\ [][NextConc]_vars

(***************************************************************************)
(* Properties.  Those about a single call are stated of `last`, the record *)
(* of the call that has just completed: its arguments, its return value,   *)
(* the library calls it made and the state it started from.                *)
(***************************************************************************)
Constructors == {"create_layer_surface", "create_shm_pool", "create_buffer_from_pool"}

\* The interface each accessor is named after.
DescriptorOf ==
    [a \in Accessors |->
        CASE a = "get_zwlr_layer_shell_v1_interface" -> "zwlr_layer_shell_v1_interface"
          [] a = "get_zwlr_layer_surface_v1_interface" -> "zwlr_layer_surface_v1_interface"
          [] a = "get_zxdg_output_manager_v1_interface" -> "zxdg_output_manager_v1_interface"
          [] a = "get_zxdg_output_v1_interface" -> "zxdg_output_v1_interface"]

\* The library function each constructor wraps.
WrappedBy ==
    [c \in Constructors |->
        CASE c = "create_layer_surface" -> "zwlr_layer_shell_v1_get_layer_surface"
          [] c = "create_shm_pool" -> "wl_shm_create_pool"
          [] c = "create_buffer_from_pool" -> "wl_shm_pool_create_buffer"]

\* C1: whatever operations ran before, every address an accessor has
\* returned is non-null, and an accessor has never returned two different
\* addresses.
C1_PointerStability ==
    \A a \in Accessors :
        /\ NULL \notin returned[a]
        /\ \A x, y \in returned[a] : x = y

\* An accessor is invoked again after a constructor created an object.
C1_Witness ==
    /\ last.op = "get_zwlr_layer_shell_v1_interface"
    /\ last.pre.returned["get_zwlr_layer_shell_v1_interface"] # {}
    /\ Created(lib) > 0
    /\ last.ret \in last.pre.returned["get_zwlr_layer_shell_v1_interface"]

\* C2: create_layer_surface makes the one library call with the five
\* arguments as given (a null output stays null) and returns its result;
\* with a valid layer shell, a valid surface and a null output the result is
\* a non-null handle of a layer surface that carries the namespace supplied.
C2_LayerSurfaceForwarded ==
    last.op = "create_layer_surface" =>
        /\ Len(last.calls) = 1
        /\ last.calls[1].fn = "zwlr_layer_shell_v1_get_layer_surface"
        /\ last.calls[1].args = last.args
        /\ last.ret = last.calls[1].ret
        /\ (/\ last.args.layer_shell \in LayerShellHandles
            /\ last.args.surface \in SurfaceHandles
            /\ last.args.output = NULL)
           => /\ last.ret # NULL
              /\ \E o \in lib.layer_surfaces :
                    /\ o.id = last.ret
                    /\ o.namespace = last.args.namespace
                    /\ o.output = NULL
                    /\ o.surface = last.args.surface
                    /\ o.layer_shell = last.args.layer_shell
                    /\ o.layer = last.args.layer

C2_Witness ==
    /\ last.op = "create_layer_surface"
    /\ last.args.layer_shell \in LayerShellHandles
    /\ last.args.surface \in SurfaceHandles
    /\ last.args.output = NULL
    /\ last.args.namespace = "bongocat"
    /\ last.ret # NULL

\* C3: create_buffer_from_pool checks nothing itself: for every geometry it
\* makes the one library call with the six arguments as given and returns
\* its result.  On a valid pool with offset 0 and height * stride within the
\* pool's size the call succeeds; beyond the pool's size the failure is the
\* one the library call reports.
C3_NoBoundsCheck ==
    last.op = "create_buffer_from_pool" =>
        /\ Len(last.calls) = 1
        /\ last.calls[1].fn = "wl_shm_pool_create_buffer"
        /\ last.calls[1].args = last.args
        /\ last.ret = last.calls[1].ret
        /\ last.args.pool \in {p.id : p \in last.pre.lib.pools} =>
             LET size == PoolOf(last.pre.lib, last.args.pool).size
                 extent == last.args.offset + last.args.height * last.args.stride
             IN  /\ (last.args.offset = 0 /\ extent <= size) =>
                        /\ last.calls[1].status = "ok"
                        /\ last.ret # NULL
                        /\ lib.error = last.pre.lib.error
                 /\ extent > size =>
                        /\ last.calls[1].status \in FailureModes
                        /\ last.ret = NULL <=> last.calls[1].status = "null"

\* A geometry beyond the pool's size reached the library.
C3_Witness ==
    /\ last.op = "create_buffer_from_pool"
    /\ last.args.pool \in {p.id : p \in last.pre.lib.pools}
    /\ last.args.height * last.args.stride > PoolOf(last.pre.lib, last.args.pool).size
    /\ Len(last.calls) = 1
    /\ last.calls[1].status = "protocol_error"
    /\ last.ret # NULL

\* C4: for every constructor and every input the value returned is the
\* value the wrapped library call returned, null included, and a failure is
\* seen only where that call failed.
C4_ResultPassedThrough ==
    last.op \in Constructors =>
        /\ \E i \in 1..Len(last.calls) :
              /\ last.calls[i].fn = WrappedBy[last.op]
              /\ last.calls[i].args = last.args
              /\ last.ret = last.calls[i].ret
              /\ last.ret = NULL <=> last.calls[i].status = "null"
              /\ lib.error # last.pre.lib.error => last.calls[i].status = "protocol_error"
        /\ last.ret \in {NULL} \cup (LibIds(lib) \ LibIds(last.pre.lib))

\* A null handle from the library came back as null.
C4_Witness ==
    /\ last.op = "create_buffer_from_pool"
    /\ last.calls # <<>>
    /\ last.calls[1].ret = NULL
    /\ last.ret = NULL

\* C5: create_shm_pool leaves the process's descriptors as they were,
\* whether it returns a pool or null, records nothing, and the pool is
\* created over the descriptor and with the size given.
C5_DescriptorUntouched ==
    last.op = "create_shm_pool" =>
        /\ fds = last.pre.fds
        /\ mem = last.pre.mem
        /\ \A c \in 1..Len(last.calls) :
              last.calls[c].args.fd = last.args.fd /\ last.calls[c].args.size = last.args.size
        /\ last.ret # NULL =>
              \E p \in lib.pools :
                  p.id = last.ret /\ p.size = last.args.size /\ p.fd = last.args.fd

C5_Witness ==
    /\ last.op = "create_shm_pool"
    /\ last.ret # NULL
    /\ last.args.fd \in fds
    /\ last.args.size = 32
    /\ \E p \in lib.pools : p.id = last.ret /\ p.size = 32

\* C6: the component retains no handle, and no call ends the life of a
\* handle, removes a library object or changes an interface descriptor.
C6_NothingRetained ==
    /\ mem = {}
    /\ last.op # "none" =>
          /\ last.pre.lib.live \subseteq lib.live
          /\ LibObjects(last.pre.lib) \subseteq LibObjects(lib)
          /\ last.pre.symtab = symtab

\* A constructor handed a new live handle to its caller.
C6_Witness ==
    /\ last.op = "create_layer_surface"
    /\ last.ret # NULL
    /\ last.ret \in lib.live
    /\ last.ret \notin last.pre.lib.live
    /\ mem = {}

\* C7: while two calls on disjoint handles are in flight, neither writes a
\* memory location of the component, and each returns what it would have
\* returned had it run alone from the state it was invoked in.
C7_NoDataRace ==
    \A t \in Threads :
        /\ frame[t].wrote = {}
        /\ pc[t] = "returning" => frame[t].result = frame[t].alone

\* Both threads have run the body of the same constructor at once.
C7_Witness ==
    /\ pc[1] = "returning"
    /\ pc[2] = "returning"
    /\ frame[1].op = "create_shm_pool"
    /\ frame[2].op = "create_shm_pool"
    /\ frame[1].ret # NULL
    /\ frame[2].ret # NULL
    /\ frame[1].ret > frame[2].ret

\* What the call op(a) does when nothing but the library state and the
\* link-time symbols is consulted.
Direct(op, w, a) ==
    CASE op \in Accessors -> [ret |-> w.symtab[DescriptorOf[op]], w |-> w]
      [] op = "create_layer_surface" ->
            zwlr_layer_shell_v1_get_layer_surface(w, a.layer_shell, a.surface, a.output,
                                                  a.layer, a.namespace)
      [] op = "create_shm_pool" -> wl_shm_create_pool(w, a.shm, a.fd, a.size)
      [] op = "create_buffer_from_pool" ->
            wl_shm_pool_create_buffer(w, a.pool, a.offset, a.width, a.height, a.stride,
                                      a.format)

\* C8: a call's forwarded arguments and result are determined by the call,
\* its arguments and the library state alone, whatever calls came before.
C8_Stateless ==
    last.op # "none" =>
        \E how \in FailureModes :
            LET d == Direct(last.op,
                            [symtab |-> last.pre.symtab, lib |-> last.pre.lib,
                             fds |-> last.pre.fds, mem |-> {}, how |-> how,
                             calls |-> <<>>],
                            last.args)
            IN  /\ last.ret = d.ret
                /\ last.calls = d.w.calls
                /\ lib = d.w.lib

\* A constructor on a handle this boundary created earlier, before any
\* accessor was ever called.
C8_Witness ==
    /\ last.op = "create_buffer_from_pool"
    /\ last.ret # NULL
    /\ last.args.pool \notin Preexisting
    /\ last.args.pool \in {p.id : p \in last.pre.lib.pools}
    /\ \A a \in Accessors : returned[a] = {}

\* C9: a constructor makes exactly one library call, the one it wraps,
\* also after a null result; an accessor makes none.
C9_OneLibraryCall ==
    /\ last.op \in Constructors =>
          /\ Len(last.calls) = 1
          /\ last.calls[1].fn = WrappedBy[last.op]
    /\ last.op \in Accessors => last.calls = <<>>

\* The library returned null and was not called again.
C9_Witness ==
    /\ last.op = "create_shm_pool"
    /\ last.ret = NULL
    /\ Len(last.calls) = 1
    /\ last.calls[1].status = "null"

\* C10: each accessor returns the address of the descriptor it is named
\* after, and no two accessors have returned the same address.
C10_OwnDescriptor ==
    /\ \A a \in Accessors : returned[a] \subseteq {symtab[DescriptorOf[a]]}
    /\ \A a, b \in Accessors : a # b => returned[a] \cap returned[b] = {}

\* All four accessors have been called.
C10_Witness ==
    /\ \A a \in Accessors : returned[a] # {}
    /\ Cardinality(UNION {returned[a] : a \in Accessors}) = 4

====
